---- MODULE Spec2Model ----
(***************************************************************************)
(* A model of the episode boundary detector (split_by_episode_patterns)    *)
(* and of the speaker attribution engine (identify_speakers) of            *)
(* transcribe_audio.py.                                                    *)
(*                                                                         *)
(* A transcript is a sequence of blocks.  Every block stands for one       *)
(* concrete string, so that every character offset, every regular          *)
(* expression match and every slice of the source has an exact value:      *)
(*   F(n)  n letters "x" (no space, no punctuation, no marker)             *)
(*   J     "Hola, te doy la bienvenida a"         introduction marker      *)
(*   C     "Gracias por escuchar. Hasta pronto."  closing marker           *)
(*   N     "Section 1."                           narrator marker          *)
(*   A     "Soy Ana y "                           self-introduction (name) *)
(*   D     ". "                                   sentence end             *)
(*   W     "\n"                                   line break               *)
(***************************************************************************)
EXTENDS Integers, Sequences, FiniteSets, TLC

\* ------------------------------------------------------------- bounds
MaxBlocks == 3
MaxSplits == 6

FillLens == {100, 1600, 5000}
\* audio_duration in seconds; 0 stands for None (both are falsy at line 274)
Durations == {0, 600, 100000}

\* ------------------------------------------------------ program constants
MIN_EPISODE_DURATION == 120
TARGET_EPISODE_DURATION == 165
MAX_EPISODE_DURATION == 210
SPLIT_EPISODE_DURATION == 240
FallbackEstimated == 2000
FallbackMin == 1500
FallbackMax == 3000
FallbackSplit == 3500
MinEpisodeChars == 100

\* ------------------------------------------------------------ the text
Filler == [k : {"F"}, n : FillLens]
Marker == { [k |-> "J", n |-> 28], [k |-> "C", n |-> 35], [k |-> "N", n |-> 10],
            [k |-> "A", n |-> 10], [k |-> "D", n |-> 2], [k |-> "W", n |-> 1] }
Blocks == Filler \cup Marker
\* longer texts: an introduction and then a closing between two long fillers
LongTexts ==
  { << [k |-> "F", n |-> 1600], [k |-> "J", n |-> 28], [k |-> "C", n |-> 35],
       [k |-> "F", n |-> 1600] >> }
Texts == UNION { [1..m -> Blocks] : m \in 0..MaxBlocks } \cup LongTexts

Max(a, b) == IF a >= b THEN a ELSE b
Min(a, b) == IF a <= b THEN a ELSE b
Abs(a) == IF a >= 0 THEN a ELSE 0 - a
SetMin(S) == CHOOSE x \in S : \A y \in S : x <= y
SetMax(S) == CHOOSE x \in S : \A y \in S : x >= y
Range(s) == { s[j] : j \in 1..Len(s) }

RECURSIVE Sorted(_)
\* sorted(S) of a set of integers
Sorted(S) == IF S = {} THEN <<>> ELSE <<SetMin(S)>> \o Sorted(S \ {SetMin(S)})

RECURSIVE SumLen(_, _)
\* length of the first j blocks
SumLen(t, j) == IF j = 0 THEN 0 ELSE SumLen(t, j - 1) + t[j].n
BlockStart(t, j) == SumLen(t, j - 1)
\* len(text)
TextLen(t) == SumLen(t, Len(t))

\* offsets, within a block, of the characters in '.!?'
PunctOff(k) == CASE k = "C" -> {20, 34} [] k = "D" -> {0} [] k = "N" -> {9} [] OTHER -> {}
\* offsets, within a block, of the characters c with c.isspace()
SpaceOff(k) == CASE k = "J" -> {5, 8, 12, 15, 26} [] k = "C" -> {7, 11, 21, 27}
                 [] k = "N" -> {7} [] k = "A" -> {3, 7, 9} [] k = "D" -> {1}
                 [] k = "W" -> {0} [] OTHER -> {}
NewlineOff(k) == IF k = "W" THEN {0} ELSE {}

PunctPos(t) == UNION { { BlockStart(t, j) + o : o \in PunctOff(t[j].k) } : j \in 1..Len(t) }
SpacePos(t) == UNION { { BlockStart(t, j) + o : o \in SpaceOff(t[j].k) } : j \in 1..Len(t) }
NewlinePos(t) == UNION { { BlockStart(t, j) + o : o \in NewlineOff(t[j].k) } : j \in 1..Len(t) }
BlocksOf(t, kind) == { j \in 1..Len(t) : t[j].k = kind }

\* the end of a slice text[lo:hi], which Python clamps to len(text)
SliceEnd(t, hi) == Min(hi, TextLen(t))

RECURSIVE SkipSpaceFwd(_, _, _)
\* the first position in lo..hi that holds no whitespace, hi when there is none
SkipSpaceFwd(t, lo, hi) ==
  IF lo < hi /\ lo \in SpacePos(t) THEN SkipSpaceFwd(t, lo + 1, hi) ELSE lo
RECURSIVE SkipSpaceBwd(_, _, _)
SkipSpaceBwd(t, lo, hi) ==
  IF lo < hi /\ (hi - 1) \in SpacePos(t) THEN SkipSpaceBwd(t, lo, hi - 1) ELSE hi
\* text[lo:hi].strip() as the span <<first, end>> it occupies in the text
StripSpan(t, lo, hi) ==
  LET e == SliceEnd(t, hi)
      f == IF lo >= e THEN lo ELSE SkipSpaceFwd(t, lo, e)
  IN IF lo >= e \/ f >= e THEN <<lo, lo>> ELSE <<f, SkipSpaceBwd(t, f, e)>>
\* len(text[lo:hi].strip())
StripLen(t, lo, hi) == StripSpan(t, lo, hi)[2] - StripSpan(t, lo, hi)[1]

\* --------------------------------------------------- the regular expressions
\* intro_patterns[0] 'Hola, te doy la bienvenida a' in text[lo:hi]: match starts
IntroStartsHola(t, lo, hi) ==
  { BlockStart(t, j) : j \in { b \in BlocksOf(t, "J") :
        BlockStart(t, b) >= lo /\ BlockStart(t, b) + 28 <= SliceEnd(t, hi) } }
\* intro_patterns[2] 'Te doy la bienvenida a' (IGNORECASE) in text[lo:hi]
IntroStartsTeDoy(t, lo, hi) ==
  { BlockStart(t, j) + 6 : j \in { b \in BlocksOf(t, "J") :
        BlockStart(t, b) + 6 >= lo /\ BlockStart(t, b) + 28 <= SliceEnd(t, hi) } }
\* for pattern in intro_patterns: for match in re.finditer(pattern, text[lo:hi]):
\* the match starts in the order the loops visit them
IntroFinditer(t, lo, hi) ==
  Sorted(IntroStartsHola(t, lo, hi)) \o Sorted(IntroStartsTeDoy(t, lo, hi))
\* for intro_pattern in intro_patterns: re.search(intro_pattern, text[lo:hi]):
\* the start of the first pattern's first match, 0 - 1 when no pattern matches
IntroSearch(t, lo, hi) ==
  IF IntroStartsHola(t, lo, hi) # {} THEN SetMin(IntroStartsHola(t, lo, hi))
  ELSE IF IntroStartsTeDoy(t, lo, hi) # {} THEN SetMin(IntroStartsTeDoy(t, lo, hi))
  ELSE 0 - 1
\* closing_patterns in text[lo:hi]: the match ends, in text order
ClosingEnds(t, lo, hi) ==
  { BlockStart(t, j) + 35 : j \in { b \in BlocksOf(t, "C") :
        BlockStart(t, b) >= lo /\ BlockStart(t, b) + 35 <= SliceEnd(t, hi) } }
\* english_narrator_patterns in the whole text: the match starts
NarratorStarts(t) == { BlockStart(t, j) : j \in BlocksOf(t, "N") }
\* re.search(r'Hola.*bienvenida|Te doy.*bienvenida|Soy \w+ y', text[lo:lo+200])
ClosingLookahead(t, lo) ==
  \/ \E j \in BlocksOf(t, "J") :
        BlockStart(t, j) + 6 >= lo /\ BlockStart(t, j) + 26 <= SliceEnd(t, lo + 200)
  \/ \E j \in BlocksOf(t, "A") :
        BlockStart(t, j) >= lo /\ BlockStart(t, j) + 9 <= SliceEnd(t, lo + 200)

\* the character before position p is a word character (\w), p > lo
WordCharBefore(t, p) ==
  \E j \in 1..Len(t) : BlockStart(t, j) + t[j].n = p /\ t[j].k \in {"F", "J"}
\* extract_speaker_names(text[lo:hi]): "Ana" by the pattern (?:Soy|soy)\s+([A-Z][a-z]+...),
\* "Section" by the rule of a capitalized word that occurs 3 times or more
extract_speaker_names(t, lo, hi) ==
  (IF \E j \in BlocksOf(t, "A") :
         BlockStart(t, j) >= lo /\ BlockStart(t, j) + 7 <= SliceEnd(t, hi)
   THEN {"Ana"} ELSE {})
  \cup
  (IF Cardinality({ j \in BlocksOf(t, "N") :
         /\ BlockStart(t, j) >= lo /\ BlockStart(t, j) + 7 <= SliceEnd(t, hi)
         /\ (BlockStart(t, j) = lo \/ ~WordCharBefore(t, BlockStart(t, j))) }) >= 3
   THEN {"Section"} ELSE {})

\* re.search(r'[.!?]+\s+', text[lo:hi]).end(), 0 - 1 when there is no match
RECURSIVE PunctRunEnd(_, _, _)
PunctRunEnd(t, p, hi) == IF p < hi /\ p \in PunctPos(t) THEN PunctRunEnd(t, p + 1, hi) ELSE p
SentenceBoundaryEnd(t, lo, hi) ==
  LET e == SliceEnd(t, hi)
      S == { p \in PunctPos(t) : p >= lo /\ p < e /\ PunctRunEnd(t, p, e) < e
                                 /\ PunctRunEnd(t, p, e) \in SpacePos(t) }
  IN IF S = {} THEN 0 - 1 ELSE SkipSpaceFwd(t, PunctRunEnd(t, SetMin(S), e), e)
\* re.search(r'\s{2,}|\n', text[lo:hi]).end(), 0 - 1 when there is no match
WhitespaceRunEnd(t, lo, hi) ==
  LET e == SliceEnd(t, hi)
      S == { p \in SpacePos(t) : p >= lo /\ p < e /\
               ((p + 1 < e /\ (p + 1) \in SpacePos(t)) \/ p \in NewlinePos(t)) }
  IN IF S = {} THEN 0 - 1
     ELSE LET p == SetMin(S)
          IN IF p + 1 < e /\ (p + 1) \in SpacePos(t) THEN SkipSpaceFwd(t, p, e) ELSE p + 1

\* ------------------------------------------------------------- the state
VARIABLES
  text,             \* the transcript (split_by_episode_patterns' text)
  audio_duration,   \* seconds, 0 for None
  pc,               \* where split_by_episode_patterns stands
  split_points,     \* the scanner's candidates
  refined_splits,   \* Pass 1's result, which Pass 2 inserts into
  final_splits,     \* Pass 2's accepted boundaries
  i,                \* the loop index of Pass 1 and of Pass 2 (0-based, as in the source)
  filtered_splits,  \* Pass 3's result
  episodes,         \* the returned list, each episode as the span <<start, end>> of the text
  split_speaker_segments, \* split_by_episode_patterns' speaker_segments, <<>> for None
  episode_speaker_sets,   \* the speaker set of each candidate segment (lines 379-401)
  first_outcome,    \* <<>>, or the outcome of an earlier call on the same text and duration
  ep_text,          \* identify_speakers' text: sentence bodies and the final full stop
  speaker_names,    \* identify_speakers' speaker_names
  is_episode_start, \* identify_speakers' is_episode_start
  spc,              \* where identify_speakers stands
  si,               \* the index i of its sentence loop (0-based)
  word_count,
  narrator_words_complete,
  last_speaker,
  labeled_sentences, \* the returned list of <<sentence, label>>
  fpc,              \* where format_transcript_with_speakers stands
  pre_labeled_sentences, \* its argument of that name, <<>> for None
  formatted_sentences,   \* the lines it renders, in order
  step,             \* where transcribe_audio_file stands
  call,             \* which of its arguments and of the existing transcript are present
  raising,          \* the collaborators' calls that raise for this file
  transcript,       \* where the Spanish transcript came from
  corrected_transcript,  \* the text that is split and rendered
  speaker_segments, \* where the audio speaker segments came from
  warnings,         \* the failures caught and reported while the file goes on
  returned,         \* transcribe_audio_file's return value
  apc,              \* where identify_speakers_with_audio stands
  audio_speakers,   \* the audio-derived speaker of each entry, <<>> for None and for []
  combined_speakers, \* identify_speakers_with_audio's return value
  alpc,             \* where align_speakers_with_text stands
  align_sentences,  \* its sentences, each as the list of its normalised words
  words_with_timestamps, \* the words of the stream; word k (0-based) lasts from 2k to 2k + 2
  diar_segments,    \* its diarization_segments: <<start, end, speaker>>, in the same unit
  word_idx,         \* the cursor into words_with_timestamps
  sentence_speakers \* the returned list of <<sentence, speaker_id>>

segVars == <<split_speaker_segments, episode_speaker_sets, first_outcome>>
splitVars == <<text, audio_duration, pc, split_points, refined_splits, final_splits, i,
               filtered_splits, episodes, segVars>>
spkVars == <<ep_text, speaker_names, is_episode_start, spc, si, word_count,
             narrator_words_complete, last_speaker, labeled_sentences>>
fmtVars == <<fpc, pre_labeled_sentences, formatted_sentences>>
fileVars == <<step, call, raising, transcript, corrected_transcript, speaker_segments,
              warnings, returned>>
audVars == <<apc, audio_speakers, combined_speakers>>
alVars == <<alpc, align_sentences, words_with_timestamps, diar_segments, word_idx,
            sentence_speakers>>
vars == <<splitVars, spkVars, fmtVars, fileVars, audVars, alVars>>

\* ------------------------------------------------------- the duration model
HasRate == audio_duration # 0 /\ TextLen(text) > 0
\* The products K * chars_per_second that the floating-point arithmetic of lines
\* 275-281 rounds just below their exact integer value, as <<K, len(text), duration>>,
\* for the lengths of texts of up to five blocks: int() then gives one less.
FloatShort ==
  { <<120, 4845, 600>>, <<120, 4900, 600>>, <<120, 5015, 600>>, <<120, 5050, 600>>,
    <<120, 5070, 600>>, <<120, 5090, 600>>, <<120, 9800, 600>>, <<120, 10030, 600>>,
    <<120, 10065, 600>>, <<120, 10100, 600>>, <<120, 10105, 600>>, <<165, 1680, 600>>,
    <<165, 6720, 600>>, <<210, 4900, 600>>, <<210, 5200, 600>>, <<210, 5220, 600>>,
    <<210, 9800, 600>>, <<210, 10100, 600>>, <<210, 11600, 600>>, <<240, 4845, 600>>,
    <<240, 4900, 600>>, <<240, 5015, 600>>, <<240, 5050, 600>>, <<240, 5070, 600>>,
    <<240, 5090, 600>>, <<240, 9800, 600>>, <<240, 10030, 600>>, <<240, 10065, 600>>,
    <<240, 10100, 600>>, <<240, 10105, 600>> }
\* int(K * chars_per_second) with chars_per_second = len(text) / audio_duration
Scaled(K) ==
  (K * TextLen(text)) \div audio_duration
    - (IF <<K, TextLen(text), audio_duration>> \in FloatShort THEN 1 ELSE 0)
estimated_chars_per_episode ==
  IF HasRate THEN Scaled(TARGET_EPISODE_DURATION) ELSE FallbackEstimated
min_chars_per_episode == IF HasRate THEN Scaled(MIN_EPISODE_DURATION) ELSE FallbackMin
max_chars_per_episode == IF HasRate THEN Scaled(MAX_EPISODE_DURATION) ELSE FallbackMax
split_chars_per_episode == IF HasRate THEN Scaled(SPLIT_EPISODE_DURATION) ELSE FallbackSplit

\* ----------------------------------------------------------- the scanner
\* lines 315-323: the position after the first '.!?' of text[pos-200:pos], whitespace skipped
NarratorSentenceStart(t, pos) ==
  LET P == { p \in PunctPos(t) : p >= Max(0, pos - 200) /\ p < pos }
  IN IF P = {} THEN pos ELSE SkipSpaceFwd(t, SetMin(P) + 1, pos)

\* no registered split point lies closer than gap
FarFromAll(sp, pos, gap) == \A k \in 1..Len(sp) : Abs(pos - sp[k]) >= gap

RECURSIVE AddNarrators(_, _, _)
\* lines 309-332, over the matches ms in order
AddNarrators(t, ms, sp) ==
  IF ms = <<>> THEN sp
  ELSE LET s == NarratorSentenceStart(t, Head(ms))
       IN AddNarrators(t, Tail(ms),
            IF s > 0 /\ FarFromAll(sp, s, 50) THEN Append(sp, s) ELSE sp)

RECURSIVE AddClosings(_, _, _)
\* lines 342-349, over the match ends es in order
AddClosings(t, es, sp) ==
  IF es = <<>> THEN sp
  ELSE AddClosings(t, Tail(es),
         IF ClosingLookahead(t, Head(es)) THEN Append(sp, Head(es))
         ELSE IF StripLen(t, Head(es), TextLen(t)) > 100 THEN Append(sp, Head(es))
         ELSE sp)

\* a scanner that registers every introduction match
IntroRegisteredAlways(sp, pos) == TRUE

\* lines 366-371: the introduction match at pos becomes a candidate
IntroRegistered(sp, pos) == pos > 50 /\ FarFromAll(sp, pos, 100)

RECURSIVE AddIntros(_, _)
\* lines 362-372, over the match starts ms in the loops' order
AddIntros(ms, sp) ==
  IF ms = <<>> THEN sp
  ELSE AddIntros(Tail(ms),
         IF IntroRegistered(sp, Head(ms)) THEN Append(sp, Head(ms)) ELSE sp)

\* format_transcript_with_speakers is not running
FmtIdle ==
  /\ fpc = "idle"
  /\ pre_labeled_sentences = <<>>
  /\ formatted_sentences = <<>>

\* align_speakers_with_text is not running
AlignIdle ==
  /\ alpc = "idle"
  /\ align_sentences = <<>>
  /\ words_with_timestamps = <<>>
  /\ diar_segments = <<>>
  /\ word_idx = 0
  /\ sentence_speakers = <<>>

\* identify_speakers_with_audio is not running
AudIdle ==
  /\ apc = "idle"
  /\ audio_speakers = <<>>
  /\ combined_speakers = <<>>

\* transcribe_audio_file is not running
FileIdle ==
  /\ step = "idle"
  /\ call = {}
  /\ raising = {}
  /\ transcript = "None"
  /\ corrected_transcript = "None"
  /\ speaker_segments = "None"
  /\ warnings = {}
  /\ returned = "None"

\* identify_speakers is not running
SpkIdle ==
  /\ ep_text = [bodies |-> <<>>, dot |-> FALSE]
  /\ speaker_names = <<>>
  /\ is_episode_start = FALSE
  /\ spc = "idle"
  /\ si = 0
  /\ word_count = 0
  /\ narrator_words_complete = FALSE
  /\ last_speaker = "None"
  /\ labeled_sentences = <<>>

Init ==
  /\ text \in Texts
  /\ audio_duration \in Durations
  /\ pc = "narrator"
  /\ split_points = <<0>>
  /\ refined_splits = <<>>
  /\ final_splits = <<>>
  /\ i = 0
  /\ filtered_splits = <<>>
  /\ episodes = <<>>
  /\ split_speaker_segments = <<>>
  /\ episode_speaker_sets = <<>>
  /\ first_outcome = <<>>
  /\ SpkIdle
  /\ FmtIdle
  /\ FileIdle
  /\ AudIdle
  /\ AlignIdle

ScanNarrator ==
  /\ pc = "narrator"
  /\ split_points' = AddNarrators(text, Sorted(NarratorStarts(text)), split_points)
  /\ pc' = "closing"
  /\ UNCHANGED <<text, audio_duration, refined_splits, final_splits, i, filtered_splits,
                 episodes, segVars, spkVars, fmtVars, fileVars, audVars, alVars>>

ScanClosing ==
  /\ pc = "closing"
  /\ split_points' = AddClosings(text, Sorted(ClosingEnds(text, 0, TextLen(text))),
                                 split_points)
  /\ pc' = "intro"
  /\ UNCHANGED <<text, audio_duration, refined_splits, final_splits, i, filtered_splits,
                 episodes, segVars, spkVars, fmtVars, fileVars, audVars, alVars>>

\* lines 390-401: the identifiers of the segments whose middle lies in the time
\* range of text[start:end]; start / chars_per_second <= middle <= end /
\* chars_per_second with chars_per_second = len(text) / audio_duration
SegmentSpeakers(start, end) ==
  IF split_speaker_segments = <<>> \/ ~HasRate THEN {}
  ELSE {split_speaker_segments[n][3] : n \in {m \in 1..Len(split_speaker_segments) :
          LET twice == (split_speaker_segments[m][1] + split_speaker_segments[m][2]) * TextLen(text)
          IN  /\ split_speaker_segments[m][3] # "None"
              /\ start * audio_duration <= twice \div 2
              /\ (twice + 1) \div 2 <= end * audio_duration}}

\* lines 379-401: one set per candidate segment, the names of its text and the
\* identifiers of its time range
EpisodeSpeakerSets(sp) ==
  [k \in 1..Len(sp) |->
     LET start == sp[k]
         end == IF k < Len(sp) THEN sp[k + 1] ELSE TextLen(text)
     IN  extract_speaker_names(text, start, end) \cup SegmentSpeakers(start, end)]

\* the introduction scan, then lines 374-375 (sorted(set(...))), lines 379-401 and line 405
ScanIntro ==
  /\ pc = "intro"
  /\ LET sp == AddIntros(IntroFinditer(text, 0, TextLen(text)), split_points)
     IN /\ split_points' = Sorted(Range(sp))
        /\ episode_speaker_sets' = EpisodeSpeakerSets(Sorted(Range(sp)))
        /\ refined_splits' = <<Sorted(Range(sp))[1]>>
  /\ i' = 1
  /\ pc' = "pass1"
  /\ UNCHANGED <<text, audio_duration, final_splits, filtered_splits, episodes,
                 split_speaker_segments, first_outcome, spkVars, fmtVars, fileVars, audVars, alVars>>

\* ------------------------------------------------- Pass 1: merge short segments
\* refined_splits[-1]
Last(s) == s[Len(s)]
\* a merge test that also counts the audio identifiers of speaker_segments,
\* which both sides share whenever the list names a speaker
speakers_overlap_audio(a, b, c) ==
  \/ extract_speaker_names(text, a, b) \cap extract_speaker_names(text, b, c) # {}
  \/ \E n \in 1..Len(split_speaker_segments) : split_speaker_segments[n][3] # "None"

\* len(current_speakers & next_speakers) > 0 (lines 427-431)
speakers_overlap(a, b, c) ==
  extract_speaker_names(text, a, b) \cap extract_speaker_names(text, b, c) # {}

\* lines 417-438: the candidate split_points[i] is skipped
Pass1Merges ==
  LET prev_start == Last(refined_splits)
      current_start == split_points[i + 1]
  IN /\ current_start - prev_start < min_chars_per_episode
     /\ i + 1 < Len(split_points)
     /\ \/ speakers_overlap(prev_start, current_start, split_points[i + 2])
        \/ split_points[i + 2] - prev_start < max_chars_per_episode

Pass1Step ==
  /\ pc = "pass1"
  /\ i < Len(split_points)
  /\ refined_splits' = IF Pass1Merges THEN refined_splits
                       ELSE Append(refined_splits, split_points[i + 1])
  /\ i' = i + 1
  /\ UNCHANGED <<text, audio_duration, pc, split_points, final_splits, filtered_splits,
                 episodes, segVars, spkVars, fmtVars, fileVars, audVars, alVars>>

\* the loop of line 408 ends; lines 445-446
Pass1Exit ==
  /\ pc = "pass1"
  /\ i >= Len(split_points)
  /\ final_splits' = <<refined_splits[1]>>
  /\ i' = 1
  /\ pc' = "pass2"
  /\ UNCHANGED <<text, audio_duration, split_points, refined_splits, filtered_splits,
                 episodes, segVars, spkVars, fmtVars, fileVars, audVars, alVars>>

\* ------------------------------------------------- Pass 2: split long segments
\* best_split = None is the value 0: the source tests "if best_split" / "if not best_split"
NoSplit == [split |-> 0, score |-> 0]
B(cond, pts) == IF cond THEN pts ELSE 0

\* speaker_diff of the halves text[p:c] and text[c:e]
speaker_diff(p, c, e) ==
  extract_speaker_names(text, p, c) \cap extract_speaker_names(text, c, e) = {}
\* len_ok with the bound max_chars_per_episode * num/10
len_ok(p, c, e, num) ==
  /\ min_chars_per_episode <= c - p /\ 10 * (c - p) <= num * max_chars_per_episode
  /\ min_chars_per_episode <= e - c /\ 10 * (e - c) <= num * max_chars_per_episode

RECURSIVE FirstScored(_)
\* the loops that stop at the first candidate whose score exceeds best_score = 0
FirstScored(cs) ==
  IF cs = <<>> THEN NoSplit
  ELSE IF Head(cs).score > 0 THEN Head(cs) ELSE FirstScored(Tail(cs))
RECURSIVE BestScored(_, _)
\* the loops that keep going: "if score > best_score" replaces the best so far
BestScored(cs, best) ==
  IF cs = <<>> THEN best
  ELSE BestScored(Tail(cs), IF Head(cs).score > best.score THEN Head(cs) ELSE best)
RECURSIVE MapSeq(_, _)
MapSeq(Op(_), s) == IF s = <<>> THEN <<>> ELSE <<Op(Head(s))>> \o MapSeq(Op, Tail(s))
RECURSIVE FilterSeq(_, _)
FilterSeq(Test(_), s) ==
  IF s = <<>> THEN <<>>
  ELSE (IF Test(Head(s)) THEN <<Head(s)>> ELSE <<>>) \o FilterSeq(Test, Tail(s))

\* Priority 1 of both branches (lines 475-508 and 581-611): the first closing of
\* text[lo:hi] that an introduction follows within 500 characters (and before lim)
ClosingThenIntro(p, e, lo, hi, lim, num) ==
  LET Followed(ce) == IntroSearch(text, ce, Min(ce + 500, lim)) >= 0
      ces == FilterSeq(Followed, Sorted(ClosingEnds(text, lo, hi)))
  IN IF ces = <<>> THEN NoSplit
     ELSE LET c == IntroSearch(text, Head(ces), Min(Head(ces) + 500, lim))
          IN [split |-> c,
              score |-> 5 + B(speaker_diff(p, c, e), 2) + B(len_ok(p, c, e, num), 2)]

\* Priority 2 of the very long branch (lines 511-547): the candidate found for the
\* first split_idx that finds one.  The loop leaves at the first split_idx whose ideal
\* position reaches current_end - min_chars_per_episode, and the ideal position never
\* decreases with split_idx, so the split_idx it visits are those below that one.
IntroAtInterval(p, e, split_idx) ==
  LET ideal_split_pos == p + split_idx * estimated_chars_per_episode
      lo == Max(p + min_chars_per_episode, ideal_split_pos - 800)
      hi == Min(e - min_chars_per_episode, ideal_split_pos + 800)
      Scored(c) == [split |-> c,
                    score |-> B(speaker_diff(p, c, e), 3) + B(len_ok(p, c, e, 14), 2)
                              + B(Abs(c - ideal_split_pos) < 400, 1)]
  IN IF ideal_split_pos >= e - min_chars_per_episode THEN NoSplit
     ELSE FirstScored(MapSeq(Scored, IntroFinditer(text, lo, hi)))
\* Every window searched lies within text[p + min : e - min], so without an
\* introduction there no split_idx finds one.
IntroAtIntervals(p, e, num_splits_needed) ==
  LET found == { k \in 1..num_splits_needed : IntroAtInterval(p, e, k).split # 0 }
  IN IF IntroFinditer(text, p + min_chars_per_episode, e - min_chars_per_episode) = <<>>
     THEN NoSplit
     ELSE IF found = {} THEN NoSplit ELSE IntroAtInterval(p, e, SetMin(found))

\* Priority 3 of the very long branch (lines 550-573)
ClosingAloneLong(p, e) ==
  LET Fits(c) == /\ 5 * StripLen(text, c, e) > 4 * min_chars_per_episode
                 /\ len_ok(p, c, e, 15)
      Scored(c) == [split |-> c, score |-> 4 + B(speaker_diff(p, c, e), 2) + 1]
  IN BestScored(MapSeq(Scored, FilterSeq(Fits, Sorted(ClosingEnds(text, p, e)))), NoSplit)

\* what each priority of the very long branch finds, in the order they are tried
VeryLongTiers(p, e) ==
  << ClosingThenIntro(p, e, p, e, e, 15),
     IntroAtIntervals(p, e, Max(1, (e - p) \div max_chars_per_episode)),
     ClosingAloneLong(p, e) >>

\* what each priority of the moderate branch finds, in the order they are tried
ModerateTiers(p, e) ==
  LET mid_point == p + (e - p) \div 2
      lo == Max(p + min_chars_per_episode, mid_point - 1000)
      hi == Min(e - min_chars_per_episode, mid_point + 1000)
      ScoredIntro(c) == [split |-> c,
                         score |-> B(speaker_diff(p, c, e), 3) + B(len_ok(p, c, e, 12), 1)]
      ScoredClosing(c) == [split |-> c,
                           score |-> B(speaker_diff(p, c, e), 2) + B(len_ok(p, c, e, 12), 1)]
  IN << ClosingThenIntro(p, e, lo, hi, hi, 13),
        BestScored(MapSeq(ScoredIntro, IntroFinditer(text, lo, hi)), NoSplit),
        BestScored(MapSeq(ScoredClosing, Sorted(ClosingEnds(text, lo, hi))), NoSplit) >>

\* "if not best_split" before priorities 2 and 3: a priority is tried only when
\* those before it found nothing
FirstTier(tiers) ==
  IF tiers[1].split # 0 THEN tiers[1]
  ELSE IF tiers[2].split # 0 THEN tiers[2]
  ELSE tiers[3]

\* lines 468-573: segment_length > split_chars_per_episode
VeryLongSearch(p, e) == FirstTier(VeryLongTiers(p, e))

\* lines 574-655: max_chars_per_episode < segment_length <= split_chars_per_episode
ModerateSearch(p, e) == FirstTier(ModerateTiers(p, e))

RECURSIVE MidpointScan(_, _, _, _)
\* lines 694-723: for offset in range(-300, 301, 50)
MidpointScan(p, e, mid_point, offset) ==
  LET min_required == (3 * min_chars_per_episode) \div 4
      check_pos == mid_point + offset
      InRange(c) == p + min_required <= c /\ c <= e - min_required
      base == Max(check_pos - 150, p)
      sb == SentenceBoundaryEnd(text, base, Min(check_pos + 400, e))
      ws == WhitespaceRunEnd(text, base, Min(check_pos + 400, e))
      next == MidpointScan(p, e, mid_point, offset + 50)
  IN IF offset > 300 THEN NoSplit
     ELSE IF ~InRange(check_pos) THEN next
     ELSE IF sb >= 0 THEN (IF InRange(sb) THEN [split |-> sb, score |-> 2] ELSE next)
     ELSE IF ws >= 0 THEN (IF InRange(ws) THEN [split |-> ws, score |-> 1] ELSE next)
     ELSE [split |-> check_pos, score |-> 1]

\* lines 659-723: no pattern found and segment_length > split_chars_per_episode * 1.25
ForcedSearch(p, e) ==
  LET segment_length == e - p
      mid_point == p + segment_length \div 2
      lo == Max(p + min_chars_per_episode, mid_point - segment_length \div 5)
      hi == Min(e - min_chars_per_episode, mid_point + segment_length \div 5)
      Enough(c) == /\ c - p >= (4 * min_chars_per_episode) \div 5
                   /\ e - c >= (4 * min_chars_per_episode) \div 5
      intros == FilterSeq(Enough, IntroFinditer(text, lo, hi))
      min_required == (3 * min_chars_per_episode) \div 4
  IN IF intros # <<>> THEN [split |-> Head(intros), score |-> 3]
     ELSE IF mid_point - p >= min_required /\ e - mid_point >= min_required
          THEN MidpointScan(p, e, mid_point, 0 - 300)
     ELSE NoSplit

\* lines 463-723: best_split for the segment text[p:e], 0 when none is found
FindSplit(p, e) ==
  LET segment_length == e - p
      scored == IF segment_length > split_chars_per_episode THEN VeryLongSearch(p, e)
                ELSE ModerateSearch(p, e)
  IN IF scored.split # 0 THEN scored.split
     ELSE IF 4 * segment_length > 5 * split_chars_per_episode THEN ForcedSearch(p, e).split
     ELSE 0

prev_start == Last(final_splits)
current_start == refined_splits[i + 1]
current_end == IF i + 1 < Len(refined_splits) THEN refined_splits[i + 2] ELSE TextLen(text)
\* line 456
TooLong == current_end - prev_start > max_chars_per_episode
\* line 460 divides by max_chars_per_episode
DividesByZero == TooLong /\ max_chars_per_episode = 0
best_split == IF TooLong /\ ~DividesByZero THEN FindSplit(prev_start, current_end) ELSE 0
\* refined_splits.insert(i, x)
InsertAt(s, k, x) == SubSeq(s, 1, k) \o <<x>> \o SubSeq(s, k + 1, Len(s))

\* lines 734-736: the segment is kept
Pass2Keep ==
  /\ pc = "pass2"
  /\ i < Len(refined_splits)
  /\ ~DividesByZero
  /\ best_split = 0
  /\ final_splits' = Append(final_splits, current_start)
  /\ i' = i + 1
  /\ UNCHANGED <<text, audio_duration, pc, split_points, refined_splits, filtered_splits,
                 episodes, segVars, spkVars, fmtVars, fileVars, audVars, alVars>>

\* The insertion puts a copy of the boundary that is already there, and changes
\* none of the boundaries that Pass 2 reads before it is back at this index.
InsertRepeats ==
  /\ Len(refined_splits) >= i + 2
  /\ SubSeq(InsertAt(refined_splits, i, best_split), 1, i + 2) = SubSeq(refined_splits, 1, i + 2)

\* lines 725-732: the split found is inserted and the pass restarts.  Of a list
\* longer than MaxSplits the model keeps the first MaxSplits boundaries, and only
\* when the pass never reads beyond them again (InsertRepeats).
Pass2Insert ==
  /\ pc = "pass2"
  /\ i < Len(refined_splits)
  /\ ~DividesByZero
  /\ best_split # 0
  /\ Len(refined_splits) < MaxSplits \/ InsertRepeats
  /\ refined_splits' = SubSeq(InsertAt(refined_splits, i, best_split), 1,
                              Min(Len(refined_splits) + 1, MaxSplits))
  /\ i' = 1
  /\ final_splits' = <<refined_splits[1]>>
  /\ UNCHANGED <<text, audio_duration, pc, split_points, filtered_splits, episodes, segVars, spkVars, fmtVars, fileVars, audVars, alVars>>

\* the model follows Pass 2 up to MaxSplits boundaries only
Pass2Capped ==
  /\ pc = "pass2"
  /\ i < Len(refined_splits)
  /\ ~DividesByZero
  /\ best_split # 0
  /\ Len(refined_splits) >= MaxSplits /\ ~InsertRepeats
  /\ pc' = "capped"
  /\ UNCHANGED <<text, audio_duration, split_points, refined_splits, final_splits, i,
                 filtered_splits, episodes, segVars, spkVars, fmtVars, fileVars, audVars, alVars>>

\* line 460: int(segment_length / max_chars_per_episode) raises ZeroDivisionError
Pass2Raise ==
  /\ pc = "pass2"
  /\ i < Len(refined_splits)
  /\ DividesByZero
  /\ pc' = "raised"
  /\ UNCHANGED <<text, audio_duration, split_points, refined_splits, final_splits, i,
                 filtered_splits, episodes, segVars, spkVars, fmtVars, fileVars, audVars, alVars>>

\* the loop of line 447 ends; lines 738-740
Pass2Exit ==
  /\ pc = "pass2"
  /\ i >= Len(refined_splits)
  /\ final_splits' = IF Last(final_splits) # TextLen(text)
                     THEN Append(final_splits, TextLen(text)) ELSE final_splits
  /\ pc' = "pass3"
  /\ UNCHANGED <<text, audio_duration, split_points, refined_splits, i, filtered_splits,
                 episodes, segVars, spkVars, fmtVars, fileVars, audVars, alVars>>

\* --------------------------------------------------- Pass 3: proximity filter
RECURSIVE FilterClose(_, _)
\* lines 744-754 over the remaining splits
FilterClose(rest, fs) ==
  IF rest = <<>> THEN fs
  ELSE LET split == Head(rest)
       IN FilterClose(Tail(rest),
            IF 5 * (split - Last(fs)) >= 2 * min_chars_per_episode THEN Append(fs, split)
            ELSE IF split = TextLen(text)
                 THEN (IF Last(fs) # TextLen(text) THEN Append(fs, TextLen(text)) ELSE fs)
            ELSE [fs EXCEPT ![Len(fs)] = split])

\* lines 743-758
Pass3 ==
  /\ pc = "pass3"
  /\ LET fs == FilterClose(Tail(final_splits), <<final_splits[1]>>)
     IN filtered_splits' = IF Last(fs) # TextLen(text) THEN Append(fs, TextLen(text)) ELSE fs
  /\ pc' = "cut"
  /\ UNCHANGED <<text, audio_duration, split_points, refined_splits, final_splits, i,
                 episodes, segVars, spkVars, fmtVars, fileVars, audVars, alVars>>

\* ------------------------------------------------------- cutting the episodes
RECURSIVE CutEpisodes(_)
\* lines 761-767 from the boundary pair k on: text[start:end].strip() kept when longer than 100
CutEpisodes(k) ==
  IF k >= Len(filtered_splits) THEN <<>>
  ELSE LET span == StripSpan(text, filtered_splits[k], filtered_splits[k + 1])
       IN (IF span[2] - span[1] > MinEpisodeChars THEN <<span>> ELSE <<>>)
          \o CutEpisodes(k + 1)

\* lines 760-773
Cut ==
  /\ pc = "cut"
  /\ episodes' = IF CutEpisodes(1) = <<>> THEN << <<0, TextLen(text)>> >> ELSE CutEpisodes(1)
  /\ pc' = "done"
  /\ UNCHANGED <<text, audio_duration, split_points, refined_splits, final_splits, i,
                 filtered_splits, segVars, spkVars, fmtVars, fileVars, audVars, alVars>>

Next ==
  \/ ScanNarrator \/ ScanClosing \/ ScanIntro
  \/ Pass1Step \/ Pass1Exit
  \/ Pass2Keep \/ Pass2Insert \/ Pass2Capped \/ Pass2Raise \/ Pass2Exit
  \/ Pass3 \/ Cut

Spec == Init /\ [][Next]_vars

\* the speaker-segment lists of a second call: <<start_time, end_time, speaker_id, text>>
SegmentLists ==
  { << <<0, 2, "SPEAKER_00", "">>, <<100, 102, "SPEAKER_00", "">> >>,
    << <<0, 2, "SPEAKER_00", "">>, <<100, 102, "SPEAKER_01", "">> >> }

\* the function has returned, raised, or reached the bound of the model
Ended == pc \in {"done", "raised", "capped"}

\* split_by_episode_patterns is called once more on the same text and audio
\* duration, now with a speaker-segment list; the first call's outcome is kept
CallAgain ==
  /\ Ended /\ first_outcome = <<>>
  /\ first_outcome' = << [pc |-> pc, episodes |-> episodes] >>
  /\ split_speaker_segments' \in SegmentLists
  /\ pc' = "narrator"
  /\ split_points' = <<0>>
  /\ refined_splits' = <<>>
  /\ final_splits' = <<>>
  /\ i' = 0
  /\ filtered_splits' = <<>>
  /\ episodes' = <<>>
  /\ episode_speaker_sets' = <<>>
  /\ UNCHANGED <<text, audio_duration, spkVars, fmtVars, fileVars, audVars, alVars>>

\* the texts of the two calls: the shorter texts, the longer texts, and texts
\* of a closing or an introduction beside a long filler, where the merge and
\* split passes consult the speakers
SegTexts ==
  UNION { [1..m -> Blocks] : m \in 0..(MaxBlocks - 1) } \cup LongTexts
  \cup { << [k |-> "C", n |-> 35], [k |-> "F", n |-> 5000], [k |-> "J", n |-> 28] >>,
         << [k |-> "C", n |-> 35], [k |-> "F", n |-> 5000], [k |-> "N", n |-> 10] >>,
         << [k |-> "F", n |-> 1600], [k |-> "J", n |-> 28], [k |-> "F", n |-> 5000] >>,
         << [k |-> "F", n |-> 1600], [k |-> "C", n |-> 35], [k |-> "F", n |-> 1600] >> }

InitSeg ==
  /\ text \in SegTexts
  /\ audio_duration \in Durations
  /\ pc = "narrator"
  /\ split_points = <<0>>
  /\ refined_splits = <<>>
  /\ final_splits = <<>>
  /\ i = 0
  /\ filtered_splits = <<>>
  /\ episodes = <<>>
  /\ split_speaker_segments = <<>>
  /\ episode_speaker_sets = <<>>
  /\ first_outcome = <<>>
  /\ SpkIdle
  /\ FmtIdle
  /\ FileIdle
  /\ AudIdle
  /\ AlignIdle

NextSeg == Next \/ CallAgain

SpecSeg == InitSeg /\ [][NextSeg]_vars

\* ====================================================================
\* identify_speakers(text, speaker_names, is_episode_start)
\* ====================================================================
\* The text is a sequence of sentence bodies joined by ". " and an optional
\* final "."; re.split(r'[.!?]+\s+') gives back the bodies and leaves the
\* final "." on the last one.  A body is one of the catalogue below; the
\* regular expressions of the function are tabulated per body.
\*   E       ""                        Hola   "Hola"          Adios "Adiós"
\*   SoyM    "Hola, soy Maria"         SoyC   "Soy Carlos"    SoyF  "Soy feliz"
\*   Mark    "Pero primero, estas son algunas palabras"
\*   Mark3   "Pero primero palabras"
\*   AskC    "Carlos, ¿por qué te gusta el café"
\*   AskM    "Maria, ¿qué tal"         AskBoth "Maria, ¿y Carlos, ¿qué tal"
\*   Gusta   "Me gusta porque es delicioso"
\*   TellM   "Maria, cuéntanos"        Close  "Gracias por escuchar"
MaxSent == 3
MaxWords == 4

PlainBodies == {"E", "Hola", "Adios"}
CascadeBodies == {"E", "Hola", "SoyM", "SoyC", "SoyF", "Mark", "Mark3", "AskC", "AskM",
                  "AskBoth", "Gusta", "TellM", "Close"}
NameLists == {<<"Maria">>, <<"Carlos", "Maria">>, <<"Maria", "Carlos">>,
              <<"Ana", "Carlos", "Maria">>}
ScenarioB == <<"SoyM", "Mark", "AskC", "Gusta", "Close">>

BodySeqs(S) == UNION {[1..n -> S] : n \in 1..MaxSent}

\* Python's None and the empty list, as label values
None == "None"
EmptyList == "[]"
Falsy(v) == v \in {None, EmptyList}

\* re.split(r'[.!?]+\s+', text), the sentences before strip()
sentences ==
  [j \in 1..Len(ep_text.bodies) |->
     [body |-> ep_text.bodies[j], dot |-> ep_text.dot /\ j = Len(ep_text.bodies)]]

\* not sentence.strip()
IsBlank(s) == s.body = "E" /\ ~s.dot

\* len(re.findall(r'\b\w+\b', sentence))
words_in_sentence(s) ==
  CASE s.body \in {"E"} -> 0
    [] s.body \in {"Hola", "Adios"} -> 1
    [] s.body \in {"SoyC", "SoyF", "TellM"} -> 2
    [] s.body \in {"SoyM", "Mark3", "AskM", "Close"} -> 3
    [] s.body \in {"AskBoth", "Gusta"} -> 5
    [] s.body = "Mark" -> 6
    [] s.body = "AskC" -> 7

\* re.search(r'Pero primero.*palabras|estas son algunas palabras', sentence)
IsMarker(s) == s.body \in {"Mark", "Mark3"}

\* re.search(rf'(?:Soy|...|mi nombre es)\s+{name}\b', sentence)
SelfIntroOf(s, name) ==
  \/ s.body = "SoyM" /\ name = "Maria"
  \/ s.body = "SoyC" /\ name = "Carlos"

\* group(1) of re.search(rf'(?:Soy|...|mi nombre es)\s+(\w+)\b', sentence), None if no match
intro_name(s) ==
  CASE s.body = "SoyM" -> "Maria"
    [] s.body = "SoyC" -> "Carlos"
    [] s.body = "SoyF" -> "feliz"
    [] OTHER -> None

\* re.search(r'Gracias por escuchar|...|Hasta la próxima', sentence)
IsClosing(s) == s.body = "Close"

\* one of the four "name, ¿..." searches matches for this name
Asks(s, name) ==
  \/ s.body \in {"AskC", "AskBoth"} /\ name = "Carlos"
  \/ s.body \in {"AskM", "AskBoth"} /\ name = "Maria"

\* group(1) of re.search(rf'(\w+),?\s+(?:cuéntanos|cuéntame|gracias|por qué|porque)'), None if no match
addressed_name(s) ==
  CASE s.body = "Gusta" -> "gusta"
    [] s.body = "TellM" -> "Maria"
    [] OTHER -> None

detect_gender(name) ==
  CASE name \in {"Maria", "Ana"} -> "F"
    [] name = "Carlos" -> "M"
    [] OTHER -> None

InNames(n) == \E j \in 1..Len(speaker_names) : speaker_names[j] = n

\* index (0-based) of the first sentence holding the word-review marker, None if there is none
word_review_marker ==
  LET hits == {j \in 1..Len(sentences) : IsMarker(sentences[j])}
  IN  IF hits = {} THEN -1 ELSE SetMin(hits) - 1

\* "if word_review_marker": None and index 0 are both false
MarkerTruthy == word_review_marker > 0

intro_section == IF MarkerTruthy THEN SubSeq(sentences, 1, word_review_marker)
                 ELSE SubSeq(sentences, 1, Min(5, Len(sentences)))

\* first sentence of the intro section in which some name introduces itself, 0 if none
IntroHit ==
  LET hits == {j \in 1..Len(intro_section) :
                 \E n \in 1..Len(speaker_names) : SelfIntroOf(intro_section[j], speaker_names[n])}
  IN  IF hits = {} THEN 0 ELSE SetMin(hits)

IntroHitName ==
  speaker_names[SetMin({n \in 1..Len(speaker_names) :
                          SelfIntroOf(intro_section[IntroHit], speaker_names[n])})]

main_speaker == IF IntroHit > 0 THEN IntroHitName ELSE speaker_names[1]

guest_speaker ==
  IF IntroHit > 0
  THEN LET others == FilterSeq(LAMBDA n : n # IntroHitName, speaker_names)
       IN  IF others # <<>> THEN others[1] ELSE EmptyList
  ELSE IF Len(speaker_names) > 1 THEN speaker_names[2] ELSE None

main_gender == detect_gender(main_speaker)
guest_gender == IF Falsy(guest_speaker) THEN None ELSE detect_gender(guest_speaker)
has_gender_info == main_gender # None /\ guest_gender # None /\ main_gender # guest_gender

sentence == sentences[si + 1]

\* lines 1325-1347: does the narrator rule label this sentence
NarratorTakes ==
  /\ is_episode_start /\ ~narrator_words_complete
  /\ \/ word_count + words_in_sentence(sentence) <= 4
     \/ word_count < 4

\* guest_speaker if last_speaker == main_speaker else main_speaker
Alternate == IF last_speaker = main_speaker THEN guest_speaker ELSE main_speaker

questioned_name ==
  speaker_names[SetMin({n \in 1..Len(speaker_names) : Asks(sentence, speaker_names[n])})]

\* an alternation in which the gender hint decides: with gender information
\* the main speaker keeps the floor
AlternationByGender(gender_info) ==
  IF gender_info /\ ~Falsy(last_speaker)
  THEN main_speaker
  ELSE IF last_speaker = main_speaker
       THEN IF ~Falsy(guest_speaker) THEN guest_speaker ELSE main_speaker
       ELSE main_speaker

\* lines 1406-1422: the alternation that ends the dialog section, with
\* has_gender_info as gender_info
AlternationLabel(gender_info) ==
  IF gender_info /\ ~Falsy(last_speaker)
  THEN IF last_speaker = main_speaker
       THEN IF ~Falsy(guest_speaker) THEN guest_speaker ELSE main_speaker
       ELSE main_speaker
  ELSE IF last_speaker = main_speaker
       THEN IF ~Falsy(guest_speaker) THEN guest_speaker ELSE main_speaker
       ELSE main_speaker

\* lines 1362-1422, the dialog section after the marker
DialogLabel ==
  IF IsClosing(sentence) THEN main_speaker
  ELSE IF intro_name(sentence) # None
  THEN IF InNames(intro_name(sentence)) THEN intro_name(sentence) ELSE Alternate
  ELSE IF \E n \in 1..Len(speaker_names) : Asks(sentence, speaker_names[n])
  THEN IF questioned_name = main_speaker THEN guest_speaker ELSE main_speaker
  ELSE IF addressed_name(sentence) # None
  THEN IF InNames(addressed_name(sentence))
       THEN IF addressed_name(sentence) = main_speaker THEN guest_speaker ELSE main_speaker
       ELSE Alternate
  ELSE AlternationLabel(has_gender_info)

\* lines 1350-1422: the cascade, entered when the narrator rule set no label
CascadeLabel ==
  IF MarkerTruthy /\ si < word_review_marker THEN main_speaker
  ELSE IF MarkerTruthy /\ si = word_review_marker THEN main_speaker
  ELSE IF MarkerTruthy /\ si > word_review_marker THEN DialogLabel
  ELSE None

\* lines 1425-1438: the else of "if not speaker_found", entered with the label "Narrator"
ElseLabel ==
  LET hits == {n \in 1..Len(speaker_names) : SelfIntroOf(sentence, speaker_names[n])}
  IN  IF hits # {} THEN speaker_names[SetMin(hits)] ELSE "Narrator"

speaker_found == IF NarratorTakes THEN ElseLabel ELSE CascadeLabel

\* the split machine is not running
SplitIdle ==
  /\ text = <<>>
  /\ audio_duration = 0
  /\ pc = "idle"
  /\ split_points = <<>>
  /\ refined_splits = <<>>
  /\ final_splits = <<>>
  /\ i = 0
  /\ filtered_splits = <<>>
  /\ episodes = <<>>
  /\ split_speaker_segments = <<>>
  /\ episode_speaker_sets = <<>>
  /\ first_outcome = <<>>

InitSpk ==
  /\ \/ /\ speaker_names = <<>>
        /\ ep_text \in [bodies : BodySeqs(PlainBodies), dot : BOOLEAN]
     \/ /\ speaker_names \in NameLists
        /\ ep_text \in [bodies : BodySeqs(CascadeBodies) \cup {ScenarioB}, dot : BOOLEAN]
  /\ is_episode_start \in BOOLEAN
  /\ spc = "start"
  /\ si = 0
  /\ word_count = 0
  /\ narrator_words_complete = FALSE
  /\ last_speaker = None
  /\ labeled_sentences = <<>>
  /\ SplitIdle
  /\ FmtIdle
  /\ FileIdle
  /\ AudIdle
  /\ AlignIdle

\* lines 1264-1268: no names, generic labels by the parity of the enumerate index
GenericLabels ==
  LET idx == FilterSeq(LAMBDA j : ~IsBlank(sentences[j]), [j \in 1..Len(sentences) |-> j])
  IN  [n \in 1..Len(idx) |->
         <<sentences[idx[n]], IF (idx[n] - 1) % 2 = 0 THEN "Speaker 1" ELSE "Speaker 2">>]

ZeroNames ==
  /\ spc = "start" /\ speaker_names = <<>>
  /\ labeled_sentences' = GenericLabels
  /\ spc' = "done"
  /\ UNCHANGED <<ep_text, speaker_names, is_episode_start, si, word_count,
                 narrator_words_complete, last_speaker, splitVars, fmtVars, fileVars, audVars, alVars>>

\* lines 1317-1320: a blank sentence is skipped
SkipSentence ==
  /\ spc = "start" /\ speaker_names # <<>> /\ si < Len(sentences)
  /\ IsBlank(sentence)
  /\ si' = si + 1
  /\ UNCHANGED <<ep_text, speaker_names, is_episode_start, spc, word_count,
                 narrator_words_complete, last_speaker, labeled_sentences, splitVars, fmtVars, fileVars, audVars, alVars>>

\* lines 1322-1442: one sentence is labelled
LabelSentence ==
  /\ spc = "start" /\ speaker_names # <<>> /\ si < Len(sentences)
  /\ ~IsBlank(sentence)
  /\ IF NarratorTakes
     THEN /\ word_count' = word_count + words_in_sentence(sentence)
          /\ narrator_words_complete' =
               IF word_count + words_in_sentence(sentence) <= 4
               THEN word_count + words_in_sentence(sentence) >= 4
               ELSE TRUE
     ELSE UNCHANGED <<word_count, narrator_words_complete>>
  /\ last_speaker' = speaker_found
  /\ labeled_sentences' = Append(labeled_sentences, <<sentence, speaker_found>>)
  /\ si' = si + 1
  /\ UNCHANGED <<ep_text, speaker_names, is_episode_start, spc, splitVars, fmtVars, fileVars, audVars, alVars>>

\* line 1444
ReturnLabels ==
  /\ spc = "start" /\ speaker_names # <<>> /\ si = Len(sentences)
  /\ spc' = "done"
  /\ UNCHANGED <<ep_text, speaker_names, is_episode_start, si, word_count,
                 narrator_words_complete, last_speaker, labeled_sentences, splitVars, fmtVars, fileVars, audVars, alVars>>

NextSpk == ZeroNames \/ SkipSentence \/ LabelSentence \/ ReturnLabels

SpecSpk == InitSpk /\ [][NextSpk]_vars

\* identify_speakers on the episodes whose sentences lead into the dialog
\* section: greetings, self-introductions, the marker, a question, an address
\* and a closing
DialogBodies == {"E", "Hola", "SoyM", "SoyC", "Mark", "AskC", "TellM", "Close"}

InitDialog ==
  /\ \/ /\ speaker_names = <<>>
        /\ ep_text \in [bodies : BodySeqs(PlainBodies), dot : BOOLEAN]
     \/ /\ speaker_names \in NameLists
        /\ ep_text \in [bodies : BodySeqs(DialogBodies), dot : BOOLEAN]
  /\ is_episode_start \in BOOLEAN
  /\ spc = "start"
  /\ si = 0
  /\ word_count = 0
  /\ narrator_words_complete = FALSE
  /\ last_speaker = None
  /\ labeled_sentences = <<>>
  /\ SplitIdle
  /\ FmtIdle
  /\ FileIdle
  /\ AudIdle
  /\ AlignIdle

SpecDialog == InitDialog /\ [][NextSpk]_vars

\* ====================================================================
\* format_transcript_with_speakers(text, speaker_names, pre_labeled_sentences,
\*                                 is_episode_start), audio_path left at None
\* as transcribe_audio_file calls it
\* ====================================================================
\* A rendered line is the sentence with or without a "[speaker]: " prefix.
\* Every body of the catalogue begins with a capital letter, so the
\* capitalisation of lines 1506 and 1520 leaves it as it is.
PreLabeled == { <<>>,
                << <<[body |-> "Hola", dot |-> FALSE], "Maria">>,
                   <<[body |-> "Adios", dot |-> TRUE], "Carlos">> >> }

InitFmt ==
  /\ \/ /\ speaker_names = <<>>
        /\ ep_text \in [bodies : BodySeqs(PlainBodies), dot : BOOLEAN]
     \/ /\ speaker_names \in NameLists
        /\ ep_text \in [bodies : BodySeqs(PlainBodies) \cup {ScenarioB}, dot : BOOLEAN]
  /\ is_episode_start \in BOOLEAN
  /\ pre_labeled_sentences \in PreLabeled
  /\ fpc = "dispatch"
  /\ formatted_sentences = <<>>
  /\ spc = "idle"
  /\ si = 0
  /\ word_count = 0
  /\ narrator_words_complete = FALSE
  /\ last_speaker = None
  /\ labeled_sentences = <<>>
  /\ SplitIdle
  /\ FileIdle
  /\ AudIdle
  /\ AlignIdle

\* line 1466: elif speaker_names
CallsIdentify == speaker_names # <<>>

\* lines 1464-1465: the pre-labelled sentences are taken as they are
UsePreLabeled ==
  /\ fpc = "dispatch" /\ pre_labeled_sentences # <<>>
  /\ labeled_sentences' = pre_labeled_sentences
  /\ fpc' = "render"
  /\ UNCHANGED <<ep_text, speaker_names, is_episode_start, spc, si, word_count,
                 narrator_words_complete, last_speaker, pre_labeled_sentences,
                 formatted_sentences, splitVars, fileVars, audVars, alVars>>

\* lines 1466-1494: identify_speakers is called
CallIdentify ==
  /\ fpc = "dispatch" /\ pre_labeled_sentences = <<>> /\ CallsIdentify
  /\ spc' = "start"
  /\ fpc' = "identify"
  /\ UNCHANGED <<ep_text, speaker_names, is_episode_start, si, word_count,
                 narrator_words_complete, last_speaker, labeled_sentences,
                 pre_labeled_sentences, formatted_sentences, splitVars, fileVars, audVars, alVars>>

\* lines 1495-1496: labeled_sentences = None
NoLabels ==
  /\ fpc = "dispatch" /\ pre_labeled_sentences = <<>> /\ ~CallsIdentify
  /\ fpc' = "render"
  /\ UNCHANGED <<spkVars, pre_labeled_sentences, formatted_sentences, splitVars, fileVars, audVars, alVars>>

\* text.split('.') of line 1514, the pieces before strip(): the bodies, and an
\* empty piece after a final "."
PlainPieces == [j \in 1..Len(ep_text.bodies) |-> ep_text.bodies[j]]

\* lines 1498-1509: one "[speaker]: sentence" line per non-blank labelled sentence
LabeledLines ==
  LET idx == FilterSeq(LAMBDA j : ~IsBlank(labeled_sentences[j][1]),
                       [j \in 1..Len(labeled_sentences) |-> j])
  IN  [n \in 1..Len(idx) |->
         [labeled |-> TRUE, speaker |-> labeled_sentences[idx[n]][2],
          body |-> labeled_sentences[idx[n]][1].body]]

\* lines 1512-1522: one unlabelled line per non-blank piece
PlainLines ==
  LET idx == FilterSeq(LAMBDA j : PlainPieces[j] # "E", [j \in 1..Len(PlainPieces) |-> j])
  IN  [n \in 1..Len(idx) |->
         [labeled |-> FALSE, speaker |-> None, body |-> PlainPieces[idx[n]]]]

\* lines 1498-1530: the lines are rendered and returned
Render ==
  /\ \/ fpc = "render"
     \/ fpc = "identify" /\ spc = "done"
  /\ formatted_sentences' = IF labeled_sentences # <<>> THEN LabeledLines ELSE PlainLines
  /\ fpc' = "done"
  /\ UNCHANGED <<spkVars, pre_labeled_sentences, splitVars, fileVars, audVars, alVars>>

\* identify_speakers is entered with names only, so its branch for no names
\* (ZeroNames) is not among the steps
NextFmt ==
  \/ UsePreLabeled \/ CallIdentify \/ NoLabels
  \/ SkipSentence \/ LabelSentence \/ ReturnLabels
  \/ Render

SpecFmt == InitFmt /\ [][NextFmt]_vars

\* ====================================================================
\* transcribe_audio_file(audio_path, model, transcript_dir, grammar_tool,
\*                       hf_token, openai_api_key)
\* ====================================================================
\* What the call is given: "existing" is a transcript that
\* check_existing_transcripts finds; "openai_api_key" and "hf_token" stand for
\* the key with its library imported (OPENAI_API_AVAILABLE, DIARIZATION_AVAILABLE).
Arguments == {"existing", "model", "grammar_tool", "hf_token", "openai_api_key"}

\* The calls that can raise: the English and the Spanish model.transcribe, the
\* grammar tool's check, the two diarization services, and
\* split_by_episode_patterns (its ZeroDivisionError).
Calls == {"english", "transcribe", "grammar", "openai", "pyannote", "split"}

InitFile ==
  /\ call \in SUBSET Arguments
  /\ raising \in SUBSET Calls
  /\ step = "check"
  /\ transcript = "None"
  /\ corrected_transcript = "None"
  /\ speaker_segments = "None"
  /\ warnings = {}
  /\ returned = "None"
  /\ SplitIdle
  /\ SpkIdle
  /\ FmtIdle
  /\ AudIdle
  /\ AlignIdle

\* lines 1617 and 1875-1879: nothing around the call catches what it raises, the
\* handler of the whole function does
TranscribeAborts == "transcribe" \in raising

\* proofread_spanish, lines 36-59: the text as it was when there is no tool or
\* the tool raises
proofread_spanish == IF "grammar_tool" \in call /\ "grammar" \notin raising
                     THEN "corrected" ELSE "original"

\* the failures that proofread_spanish catches and reports (lines 57-59)
ProofreadWarnings == IF "grammar_tool" \in call /\ "grammar" \in raising
                     THEN {"grammar"} ELSE {}

\* lines 1597-1609: an existing transcript ends the call with True, no model with False
CheckExisting ==
  /\ step = "check"
  /\ IF "existing" \in call THEN step' = "done" /\ returned' = "True"
     ELSE IF "model" \notin call THEN step' = "done" /\ returned' = "False"
     ELSE step' = "english" /\ returned' = returned
  /\ UNCHANGED <<call, raising, transcript, corrected_transcript, speaker_segments,
                 warnings, splitVars, spkVars, fmtVars, audVars, alVars>>

\* line 1612 with transcribe_english_narrator, lines 61-90: what the model raises
\* is caught there and None comes back
EnglishNarrator ==
  /\ step = "english"
  /\ warnings' = warnings \cup (raising \cap {"english"})
  /\ step' = "spanish"
  /\ UNCHANGED <<call, raising, transcript, corrected_transcript, speaker_segments,
                 returned, splitVars, spkVars, fmtVars, audVars, alVars>>

\* lines 1615-1619: the Spanish transcription
TranscribeSpanish ==
  /\ step = "spanish"
  /\ IF TranscribeAborts
     THEN step' = "done" /\ returned' = "False" /\ transcript' = transcript
     ELSE step' = "proofread" /\ returned' = returned /\ transcript' = "whisper"
  /\ UNCHANGED <<call, raising, corrected_transcript, speaker_segments, warnings,
                 splitVars, spkVars, fmtVars, audVars, alVars>>

\* lines 1621-1635
Proofread ==
  /\ step = "proofread"
  /\ corrected_transcript' = proofread_spanish
  /\ warnings' = warnings \cup ProofreadWarnings
  /\ step' = "diarize"
  /\ UNCHANGED <<call, raising, transcript, speaker_segments, returned,
                 splitVars, spkVars, fmtVars, audVars, alVars>>

\* lines 1646-1688: the OpenAI service first (lines 871-954 catch what it raises
\* and give back None, None), pyannote when that gave no segments (lines 955-988
\* catch what it raises and give back None); a service that answers may or may
\* not give segments
Diarize ==
  /\ step = "diarize"
  /\ \E openai_segments \in BOOLEAN, diarization_segments \in BOOLEAN :
       LET openai_called == "openai_api_key" \in call
           openai_ok == openai_called /\ "openai" \notin raising
           from_openai == openai_ok /\ openai_segments
           pyannote_called == ~from_openai /\ "hf_token" \in call
           pyannote_ok == pyannote_called /\ "pyannote" \notin raising
       IN  /\ transcript' = IF openai_ok THEN "openai" ELSE transcript
           /\ speaker_segments' = IF from_openai THEN "openai"
                                  ELSE IF pyannote_ok /\ diarization_segments THEN "pyannote"
                                  ELSE "None"
           /\ warnings' = warnings
                \cup (IF openai_called THEN raising \cap {"openai"} ELSE {})
                \cup (IF pyannote_called THEN raising \cap {"pyannote"} ELSE {})
                \cup (IF openai_ok THEN ProofreadWarnings ELSE {})
  /\ step' = "split"
  /\ UNCHANGED <<call, raising, corrected_transcript, returned, splitVars, spkVars, fmtVars, audVars, alVars>>

\* lines 1703-1722 and 1875-1879: what split_by_episode_patterns raises reaches the
\* handler of the whole function
SplitEpisodes ==
  /\ step = "split"
  /\ IF "split" \in raising
     THEN step' = "done" /\ returned' = "False"
     ELSE step' = "write" /\ returned' = returned
  /\ UNCHANGED <<call, raising, transcript, corrected_transcript, speaker_segments,
                 warnings, splitVars, spkVars, fmtVars, audVars, alVars>>

\* lines 1724-1873: the episodes are rendered and written, True is returned
WriteTranscript ==
  /\ step = "write"
  /\ step' = "done"
  /\ returned' = "True"
  /\ UNCHANGED <<call, raising, transcript, corrected_transcript, speaker_segments,
                 warnings, splitVars, spkVars, fmtVars, audVars, alVars>>

NextFile ==
  \/ CheckExisting \/ EnglishNarrator \/ TranscribeSpanish \/ Proofread
  \/ Diarize \/ SplitEpisodes \/ WriteTranscript

SpecFile == InitFile /\ [][NextFile]_vars

\* ====================================================================
\* identify_speakers_with_audio(text, speaker_names, ...), lines 1149-1206:
\* the fusion of the audio-derived speakers with identify_speakers' labels
\* ====================================================================
\* audio_speakers is what the OpenAI or the pyannote path left at line 1146,
\* reduced to the raw speaker identifier of each entry (the fusion does not
\* read the entries' sentences); ep_text is the text handed to
\* identify_speakers at line 1149.
AudioBodies == {"E", "SoyM", "SoyC", "TellM", "Mark"}
AudioNames == {<<>>, <<"Maria", "Carlos">>, <<"Carlos", "Maria">>, <<"Ana", "Carlos", "Maria">>}
AudioIds == {None, "SPEAKER_00", "SPEAKER_01"}
ThreeIds == <<"SPEAKER_00", "SPEAKER_01", "SPEAKER_02">>
AudioLists ==
  UNION {[1..n -> AudioIds] : n \in 0..(MaxSent - 1)}
  \cup {ThreeIds, <<"SPEAKER_00", "SPEAKER_01", "SPEAKER_01">>,
        <<"SPEAKER_01", "None", "SPEAKER_00">>}

InitAudio ==
  /\ speaker_names \in AudioNames
  /\ ep_text \in [bodies : BodySeqs(AudioBodies), dot : {FALSE}]
  /\ audio_speakers \in AudioLists
  /\ is_episode_start = FALSE
  /\ apc = "text"
  /\ combined_speakers = <<>>
  /\ spc = "start"
  /\ si = 0
  /\ word_count = 0
  /\ narrator_words_complete = FALSE
  /\ last_speaker = None
  /\ labeled_sentences = <<>>
  /\ SplitIdle
  /\ FmtIdle
  /\ FileIdle
  /\ AlignIdle

\* line 1152: if audio_speakers and len(audio_speakers) == len(text_speakers)
CountsAgree == audio_speakers # <<>> /\ Len(audio_speakers) = Len(labeled_sentences)

\* lines 1158-1161: the keys of audio_speaker_counts
RawIds == {audio_speakers[n] : n \in 1..Len(audio_speakers)} \ {None}

\* line 1171: sorted by count, largest first; the sort is stable and the
\* dictionary keeps the identifiers in the order of their first entry
sorted_audio ==
  LET Occurrences(id) == Cardinality({n \in 1..Len(audio_speakers) : audio_speakers[n] = id})
      FirstAt(id) == SetMin({n \in 1..Len(audio_speakers) : audio_speakers[n] = id})
      SortsBefore(a, b) ==
        \/ Occurrences(a) > Occurrences(b)
        \/ Occurrences(a) = Occurrences(b) /\ FirstAt(a) < FirstAt(b)
  IN  [k \in 1..Cardinality(RawIds) |->
         CHOOSE a \in RawIds : Cardinality({b \in RawIds : SortsBefore(b, a)}) = k - 1]

\* name.lower() in sentence.lower()
Mentions(s, name) ==
  \/ name = "Maria" /\ s.body \in {"SoyM", "AskM", "AskBoth", "TellM"}
  \/ name = "Carlos" /\ s.body \in {"SoyC", "AskC", "AskBoth"}

\* lines 1173-1180: the first name, in the order of speaker_names, that the
\* intro text (the first five labelled sentences) holds
main_speaker_name ==
  LET InIntroText(name) ==
        \E j \in 1..Min(5, Len(labeled_sentences)) : Mentions(labeled_sentences[j][1], name)
      hits == {n \in 1..Len(speaker_names) : InIntroText(speaker_names[n])}
  IN  IF hits = {} THEN None ELSE speaker_names[SetMin(hits)]

\* a fusion that maps whenever there are as many identifiers as names
MapsIdsAnyCount == Cardinality(RawIds) = Len(speaker_names)

\* line 1169
MapsIds == Cardinality(RawIds) = Len(speaker_names) /\ Len(speaker_names) = 2

\* lines 1166-1186: the dictionary from raw identifiers to names
audio_speaker_to_name ==
  LET other_name == FilterSeq(LAMBDA n : n # main_speaker_name, speaker_names)[1]
  IN  IF MapsIds /\ main_speaker_name # None
      THEN [id \in RawIds |-> IF id = sorted_audio[1] THEN main_speaker_name ELSE other_name]
      ELSE [id \in {} |-> None]

\* lines 1189-1199: the audio's name where the identifier is mapped, the text's label elsewhere
Combined ==
  [n \in 1..Len(labeled_sentences) |->
     <<labeled_sentences[n][1],
       IF audio_speakers[n] # None /\ audio_speakers[n] \in DOMAIN audio_speaker_to_name
       THEN audio_speaker_to_name[audio_speakers[n]]
       ELSE labeled_sentences[n][2]>>]

\* lines 1152-1203
Combine ==
  /\ apc = "text" /\ spc = "done"
  /\ CountsAgree
  /\ combined_speakers' = Combined
  /\ apc' = "done"
  /\ UNCHANGED <<audio_speakers, splitVars, spkVars, fmtVars, fileVars, alVars>>

\* lines 1205-1206: return text_speakers
ReturnTextOnly ==
  /\ apc = "text" /\ spc = "done"
  /\ ~CountsAgree
  /\ combined_speakers' = labeled_sentences
  /\ apc' = "done"
  /\ UNCHANGED <<audio_speakers, splitVars, spkVars, fmtVars, fileVars, alVars>>

NextAudio ==
  ZeroNames \/ SkipSentence \/ LabelSentence \/ ReturnLabels \/ Combine \/ ReturnTextOnly

SpecAudio == InitAudio /\ [][NextAudio]_vars

\* ====================================================================
\* align_speakers_with_text(sentences, words_with_timestamps,
\*                          diarization_segments), lines 1015-1087
\* ====================================================================
\* A sentence is the list sentence_words of line 1047, empty for a sentence
\* that is blank or has no word. The stream holds the cleaned words of line
\* 1060; times are counted in half words, so that the middle of a range is
\* an integer.
StreamWords == {"hola", "soy", "maria", "gracias"}
SentenceChoices == {<<>>, <<"hola">>, <<"soy", "maria">>, <<"hola", "soy", "maria", "gracias">>}
SegmentChoices == { << <<0, 2 * MaxWords, "SPEAKER_00">> >>,
                    << <<5, 2 * MaxWords, "SPEAKER_01">>, <<0, 3, "SPEAKER_00">> >> }

InitAlign ==
  /\ align_sentences \in UNION {[1..n -> SentenceChoices] : n \in 1..2}
  /\ words_with_timestamps \in UNION {[1..n -> StreamWords] : n \in 1..MaxWords}
  /\ diar_segments \in SegmentChoices
  /\ alpc = "loop"
  /\ word_idx = 0
  /\ sentence_speakers = <<>>
  /\ SplitIdle
  /\ SpkIdle
  /\ FmtIdle
  /\ FileIdle
  /\ AudIdle

\* the sentence the loop of line 1041 stands at
align_sentence == align_sentences[Len(sentence_speakers) + 1]

\* lines 1028-1033: the first segment, by start time, that holds the time
get_speaker_at_time(time) ==
  LET holds == {n \in 1..Len(diar_segments) :
                  diar_segments[n][1] <= time /\ time <= diar_segments[n][2]}
  IN  IF holds = {} THEN None
      ELSE diar_segments[CHOOSE n \in holds :
             \A m \in holds : diar_segments[n][1] <= diar_segments[m][1]][3]

\* lines 1058-1072: the loop over the stream from index k, with the range and
\* the count found so far; the cursor moves only when enough words matched
RECURSIVE MatchWords(_, _, _, _, _)
MatchWords(sentence_words, k, sentence_start, sentence_end, matched_words) ==
  IF k >= Len(words_with_timestamps)
  THEN [sentence_start |-> sentence_start, sentence_end |-> sentence_end,
        matched_words |-> matched_words, word_idx |-> word_idx]
  ELSE IF \E n \in 1..Len(sentence_words) : sentence_words[n] = words_with_timestamps[k + 1]
  THEN LET first == IF sentence_start = -1 THEN 2 * k ELSE sentence_start
       IN  IF matched_words + 1 >= Min(3, Len(sentence_words))
           THEN [sentence_start |-> first, sentence_end |-> 2 * k + 2,
                 matched_words |-> matched_words + 1, word_idx |-> k + 1]
           ELSE MatchWords(sentence_words, k + 1, first, 2 * k + 2, matched_words + 1)
  ELSE MatchWords(sentence_words, k + 1, sentence_start, sentence_end, matched_words)

\* what the loop finds for the current sentence
Matched == MatchWords(align_sentence, word_idx, -1, -1, 0)

\* lines 1074-1083
speaker_id ==
  IF Matched.sentence_start = -1 THEN None
  ELSE LET mid == (Matched.sentence_start + Matched.sentence_end) \div 2
       IN  IF get_speaker_at_time(mid) # None THEN get_speaker_at_time(mid)
           ELSE IF get_speaker_at_time(Matched.sentence_start) # None
           THEN get_speaker_at_time(Matched.sentence_start)
           ELSE get_speaker_at_time(Matched.sentence_end)

\* lines 1042-1050: a sentence that is blank or has no word gets None
NoWords ==
  /\ alpc = "loop" /\ Len(sentence_speakers) < Len(align_sentences)
  /\ align_sentence = <<>>
  /\ sentence_speakers' = Append(sentence_speakers, <<align_sentence, None>>)
  /\ UNCHANGED <<alpc, align_sentences, words_with_timestamps, diar_segments, word_idx,
                 splitVars, spkVars, fmtVars, fileVars, audVars>>

\* lines 1046-1085: one sentence is matched against the stream
AlignSentence ==
  /\ alpc = "loop" /\ Len(sentence_speakers) < Len(align_sentences)
  /\ align_sentence # <<>>
  /\ word_idx' = Matched.word_idx
  /\ sentence_speakers' = Append(sentence_speakers, <<align_sentence, speaker_id>>)
  /\ UNCHANGED <<alpc, align_sentences, words_with_timestamps, diar_segments,
                 splitVars, spkVars, fmtVars, fileVars, audVars>>

\* line 1087
ReturnAligned ==
  /\ alpc = "loop" /\ Len(sentence_speakers) = Len(align_sentences)
  /\ alpc' = "done"
  /\ UNCHANGED <<align_sentences, words_with_timestamps, diar_segments, word_idx,
                 sentence_speakers, splitVars, spkVars, fmtVars, fileVars, audVars>>

NextAlign == NoWords \/ AlignSentence \/ ReturnAligned

SpecAlign == InitAlign /\ [][NextAlign]_vars

\* ====================================================================
\* The claims
\* ====================================================================
\* the episode list has been cut from filtered_splits
Cutting == pc \in {"cut", "done"}

\* nothing but whitespace in text[lo:hi]
OnlySpace(lo, hi) == StripLen(text, lo, hi) = 0

\* C1: for every transcript the final boundary list filtered_splits starts with 0
\* and ends with len(text).
C1_BoundariesSpanText ==
  Cutting => /\ filtered_splits[1] = 0
             /\ Last(filtered_splits) = TextLen(text)

\* C2: the final boundaries are strictly ascending, and the returned episodes are
\* pairwise disjoint spans of the text in text order.
C2_StrictlyAscending ==
  /\ Cutting => \A j \in 1..(Len(filtered_splits) - 1) :
                  filtered_splits[j] < filtered_splits[j + 1]
  /\ pc = "done" => \A j \in 1..(Len(episodes) - 1) : episodes[j][2] <= episodes[j + 1][1]

\* C3: for a non-empty text the returned episodes, in order, are the whole text
\* but for whitespace at their edges: nothing else lies before the first episode,
\* between two consecutive episodes or after the last one.
C3_EpisodesCoverText ==
  (pc = "done" /\ TextLen(text) > 0) =>
    /\ OnlySpace(0, episodes[1][1])
    /\ \A j \in 1..(Len(episodes) - 1) :
         /\ episodes[j][2] <= episodes[j + 1][1]
         /\ OnlySpace(episodes[j][2], episodes[j + 1][1])
    /\ OnlySpace(Last(episodes)[2], TextLen(text))

\* the text holds no introduction, closing or narrator marker
MarkerFree == \A j \in 1..Len(text) : text[j].k = "F"

\* C4: with no duration, a marker-free text longer than 1.25 x split is cut by the
\* forced fallback into episodes of at least 75% of min (1125) characters each, two
\* of them when the text has 5000 characters.
C4_ForcedSplitInTwo ==
  (pc = "done" /\ audio_duration = 0 /\ MarkerFree /\ 4 * TextLen(text) > 5 * FallbackSplit) =>
    /\ Len(episodes) >= 2
    /\ TextLen(text) = 5000 => Len(episodes) = 2
    /\ \A j \in 1..Len(episodes) : 4 * (episodes[j][2] - episodes[j][1]) >= 3 * FallbackMin

\* C5: a text no longer than max comes back as exactly one episode, the text itself
\* up to whitespace at its edges, whatever markers it holds.
C5_BoundedEpisodeUnchanged ==
  (pc = "done" /\ TextLen(text) > 0 /\ TextLen(text) <= max_chars_per_episode) =>
    /\ Len(episodes) = 1
    /\ OnlySpace(0, episodes[1][1])
    /\ OnlySpace(episodes[1][2], TextLen(text))

\* C10: split_by_episode_patterns never raises, for every text and every duration.
C10_NeverRaises == pc # "raised"

\* the sentences identify_speakers has to label: the non-blank ones, in order
NonBlank == FilterSeq(LAMBDA s : ~IsBlank(s), sentences)

AllowedLabels == Range(speaker_names) \cup {"Narrator", "Speaker 1", "Speaker 2"}

\* C6: identify_speakers returns one pair per non-blank sentence, in order, and
\* every label is a detected name, "Narrator", "Speaker 1" or "Speaker 2".
C6_EveryLabelDefined ==
  spc = "done" =>
    /\ Len(labeled_sentences) = Len(NonBlank)
    /\ \A j \in 1..Len(labeled_sentences) :
         /\ labeled_sentences[j][1] = NonBlank[j]
         /\ labeled_sentences[j][2] \in AllowedLabels

\* the label the degraded cascade gives the current sentence
DegradedLabel ==
  LET hits == {n \in 1..Len(speaker_names) : SelfIntroOf(sentence, speaker_names[n])}
      other_speakers == FilterSeq(LAMBDA n : n # last_speaker, speaker_names)
  IN  IF hits # {} THEN speaker_names[SetMin(hits)]
      ELSE IF last_speaker = None THEN main_speaker
      ELSE IF other_speakers # <<>> THEN other_speakers[1] ELSE last_speaker

\* C7: with no word-review marker a sentence the narrator rule leaves alone is
\* labelled by the degraded cascade: the self-introduced name, else the name other
\* than the previous speaker, else main_speaker for the first sentence.
C7_DegradedCascade ==
  [][(LabelSentence /\ word_review_marker = -1 /\ ~NarratorTakes)
       => last_speaker' = DegradedLabel]_vars

\* the known names the sentence addresses with a question
asked_names == {n \in Range(speaker_names) : Asks(sentence, n)}

\* the sentence is neither a closing nor a self-introduction and addresses one known
\* name with a question
AddressedQuestion ==
  /\ ~IsClosing(sentence)
  /\ intro_name(sentence) = None
  /\ Cardinality(asked_names) = 1

\* C8: after the word-review marker an addressed question (in a sentence the narrator
\* rule leaves alone) is labelled with the other participant: guest_speaker when
\* main_speaker is asked, main_speaker when the guest is asked, never the asked name;
\* Scenario B is labelled Maria, Maria, Maria, Carlos, Maria.
C8_AddressedQuestion ==
  /\ [][(LabelSentence /\ word_review_marker >= 0 /\ si > word_review_marker
          /\ ~NarratorTakes /\ AddressedQuestion)
         => /\ main_speaker \in asked_names => last_speaker' = guest_speaker
            /\ main_speaker \notin asked_names => last_speaker' = main_speaker
            /\ last_speaker' \notin asked_names]_vars
  /\ [](( /\ spc = "done" /\ ep_text.bodies = ScenarioB
          /\ speaker_names = <<"Maria", "Carlos">> /\ ~is_episode_start)
        => MapSeq(LAMBDA p : p[2], labeled_sentences)
             = <<"Maria", "Maria", "Maria", "Carlos", "Maria">>)

\* C9: with no names the returned sentences are labelled "Speaker 1", "Speaker 2",
\* "Speaker 1", ... in turn, and "Hola. Adiós." gives ("Hola", "Speaker 1"),
\* ("Adiós", "Speaker 2").
C9_GenericAlternation ==
  (spc = "done" /\ speaker_names = <<>>) =>
    /\ \A j \in 1..Len(labeled_sentences) :
         labeled_sentences[j][2] = IF j % 2 = 1 THEN "Speaker 1" ELSE "Speaker 2"
    /\ ep_text = [bodies |-> <<"Hola", "Adios">>, dot |-> TRUE]
         => labeled_sentences = << <<[body |-> "Hola", dot |-> FALSE], "Speaker 1">>,
                                   <<[body |-> "Adios", dot |-> FALSE], "Speaker 2">> >>

\* the only marker of the text is one introduction phrase, at an offset of 50 or less
OnlyShortIntro ==
  /\ Cardinality(BlocksOf(text, "J")) = 1
  /\ \A j \in 1..Len(text) : text[j].k \in {"F", "J", "D", "W"}
  /\ \A j \in BlocksOf(text, "J") : BlockStart(text, j) <= 50

\* C11: for a text whose only marker is an introduction phrase at an offset of 50 or
\* less the scanner registers no candidate but 0, and the function returns one
\* episode, the whole text (up to whitespace at its edges).
C11_ShortIntroIgnored ==
  OnlyShortIntro =>
    /\ split_points = <<0>>
    /\ pc = "done" => /\ Len(episodes) = 1
                      /\ OnlySpace(0, episodes[1][1])
                      /\ OnlySpace(episodes[1][2], TextLen(text))

\* the function has returned for a text with its only introduction at offset 0
C11_Witness ==
  /\ pc = "done" /\ OnlyShortIntro
  /\ Len(text) >= 2 /\ text[1].k = "J"
  /\ episodes = << <<0, TextLen(text)>> >>

\* C12: the four thresholds satisfy min <= target <= max <= split; with a known
\* duration and a non-empty text they are the integer parts of 120, 165, 210 and 240
\* times len(text)/duration, and otherwise exactly 1500, 2000, 3000 and 3500.
C12_ThresholdsOrdered ==
  /\ min_chars_per_episode <= estimated_chars_per_episode
  /\ estimated_chars_per_episode <= max_chars_per_episode
  /\ max_chars_per_episode <= split_chars_per_episode
  /\ (audio_duration # 0 /\ TextLen(text) > 0) =>
       /\ min_chars_per_episode = (120 * TextLen(text)) \div audio_duration
       /\ estimated_chars_per_episode = (165 * TextLen(text)) \div audio_duration
       /\ max_chars_per_episode = (210 * TextLen(text)) \div audio_duration
       /\ split_chars_per_episode = (240 * TextLen(text)) \div audio_duration
  /\ (audio_duration = 0 \/ TextLen(text) = 0) =>
       /\ min_chars_per_episode = 1500
       /\ estimated_chars_per_episode = 2000
       /\ max_chars_per_episode = 3000
       /\ split_chars_per_episode = 3500

\* C14: with no speaker names and no pre-labelled sentences, every line that
\* format_transcript_with_speakers renders carries the label "Speaker 1" or
\* "Speaker 2", and neighbouring lines carry different ones.
C14_GenericFallbackLabels ==
  (fpc = "done" /\ speaker_names = <<>> /\ pre_labeled_sentences = <<>>) =>
    /\ \A n \in 1..Len(formatted_sentences) :
         /\ formatted_sentences[n].labeled
         /\ formatted_sentences[n].speaker \in {"Speaker 1", "Speaker 2"}
    /\ \A n \in 1..(Len(formatted_sentences) - 1) :
         formatted_sentences[n].speaker # formatted_sentences[n + 1].speaker

\* C13: when a transcript has to be made and a model is given, no exception
\* that a collaborator's call raises (transcription, diarization, grammar
\* correction) ends the file: each is caught where it is called, and
\* transcribe_audio_file returns True unless something else failed.
C13_CollaboratorFailureContained ==
  (step = "done" /\ "existing" \notin call /\ "model" \in call /\ "split" \notin raising) =>
    returned = "True"

\* each element of the list s is smaller than the next
Ascending(s) == \A j \in 1..(Len(s) - 1) : s[j] < s[j + 1]

\* C15: once the scanner has sorted its candidates, after every step of the
\* refiner (every insertion of Pass 2 included) the list of split points being
\* worked on is strictly ascending, so free of duplicates, and begins with 0.
C15_WorkingListSorted ==
  pc \in {"pass1", "pass2", "pass3", "cut", "done"} =>
    /\ Ascending(split_points) /\ split_points[1] = 0
    /\ Ascending(refined_splits)
    /\ refined_splits # <<>> => refined_splits[1] = 0

\* Pass 2 is about to insert a split, and the insertion brings it back to this
\* very step with the same boundaries before it: the step is repeated without end.
Pass2Repeats ==
  /\ pc = "pass2" /\ i < Len(refined_splits)
  /\ ~DividesByZero /\ best_split # 0
  /\ InsertRepeats

\* C16: Pass 2 always terminates: whatever the text and the thresholds, only
\* finitely many splits are inserted, so Pass 2 never comes to a step that it
\* repeats without end.
C16_Pass2Terminates == ~Pass2Repeats

\* C17: Pass 2 inserts a split only inside one span between two consecutive
\* boundaries that is itself longer than max: when the span before the
\* boundary it stands at and the span after it are both no longer than max,
\* no split is inserted.
C17_SearchWithinOneSpan ==
  [][(pc = "pass2" /\ Ascending(refined_splits) /\ refined_splits' # refined_splits) =>
       \/ current_start - prev_start > max_chars_per_episode
       \/ current_end - current_start > max_chars_per_episode]_vars

\* what the priorities find for the segment Pass 2 stands at
TiersHere ==
  IF current_end - prev_start > split_chars_per_episode
  THEN VeryLongTiers(prev_start, current_end)
  ELSE ModerateTiers(prev_start, current_end)
\* the priorities that find a candidate
TiersFound == { k \in 1..3 : TiersHere[k].split # 0 }
\* the first of them among those with the highest score
HighestTier ==
  SetMin({ k \in TiersFound : \A m \in TiersFound : TiersHere[m].score <= TiersHere[k].score })

\* C18: when more than one priority (closing followed by introduction,
\* introduction alone, closing alone) finds a candidate in an over-long segment,
\* Pass 2 inserts the candidate with the highest score of them all, the first
\* found among equal scores.
C18_HighestScoreWins ==
  (pc = "pass2" /\ i < Len(refined_splits) /\ TooLong /\ ~DividesByZero
     /\ Cardinality(TiersFound) >= 2) =>
    best_split = TiersHere[HighestTier].split

\* Pass 2 stands at a segment for which no priority finds a split and the forced
\* fallback finds no introduction but a place near the midpoint
ForcedMidpoint ==
  /\ pc = "pass2" /\ i < Len(refined_splits) /\ TooLong /\ ~DividesByZero
  /\ FirstTier(TiersHere).split = 0
  /\ 4 * (current_end - prev_start) > 5 * split_chars_per_episode
  /\ ForcedSearch(prev_start, current_end).score \in {1, 2}
\* the exact midpoint of that segment
MidpointHere == prev_start + (current_end - prev_start) \div 2
\* the ends of the sentence boundaries ([.!?]+\s+) inside the segment and within
\* 300 characters of its midpoint
BoundariesNearMidpoint ==
  { b \in { SentenceBoundaryEnd(text, q, current_end) : q \in PunctPos(text) } :
      /\ prev_start < b /\ b < current_end
      /\ Abs(b - MidpointHere) <= 300 }

\* C19: when the forced fallback finds no introduction, the split it inserts is
\* the sentence boundary nearest to the exact midpoint of the segment, among
\* those within 300 characters of it.
C19_NearestSentenceBoundary ==
  (ForcedMidpoint /\ BoundariesNearMidpoint # {}) =>
    /\ best_split \in BoundariesNearMidpoint
    /\ \A b \in BoundariesNearMidpoint :
         Abs(best_split - MidpointHere) <= Abs(b - MidpointHere)

\* C20: after Pass 3 every boundary of filtered_splits but the final one, the
\* end of the text, lies at least 0.4 x min characters after the boundary before it.
C20_ProximityFiltered ==
  Cutting => \A j \in 2..(Len(filtered_splits) - 1) :
               5 * (filtered_splits[j] - filtered_splits[j - 1]) >= 2 * min_chars_per_episode

\* the position after the last '.!?' of text[pos-200:pos], whitespace skipped:
\* the start of the sentence that holds the match at pos
NearestSentenceStart(t, pos) ==
  LET P == { p \in PunctPos(t) : p >= Max(0, pos - 200) /\ p < pos }
  IN IF P = {} THEN pos ELSE SkipSpaceFwd(t, SetMax(P) + 1, pos)

\* C21: for a narrator marker match at pos the scanner registers the position
\* just after the nearest sentence-terminal punctuation before pos within 200
\* characters, whitespace skipped (here for a text with one narrator marker,
\* right after the narrator scan).
C21_NarratorAtSentenceStart ==
  (pc = "closing" /\ Cardinality(NarratorStarts(text)) = 1) =>
    LET s == NearestSentenceStart(text, SetMin(NarratorStarts(text)))
    IN split_points = IF s >= 50 THEN <<0, s>> ELSE <<0>>


\* words of the first n labelled sentences
RECURSIVE WordsThrough(_)
WordsThrough(n) ==
  IF n = 0 THEN 0 ELSE WordsThrough(n - 1) + words_in_sentence(labeled_sentences[n][1])

\* C22: with is_episode_start set and at least one detected name, every
\* sentence (of at least one word) that lies wholly within the first four
\* words of the episode is labelled "Narrator", whatever it says
C22_FirstFourWordsNarrator ==
  (spc = "done" /\ is_episode_start /\ speaker_names # <<>>) =>
    \A n \in 1..Len(labeled_sentences) :
      (words_in_sentence(labeled_sentences[n][1]) >= 1 /\ WordsThrough(n) <= 4) =>
        labeled_sentences[n][2] = "Narrator"

\* the sentence being labelled crosses the 4-word boundary of the narrator phase
CrossesBoundary ==
  /\ spc = "start" /\ speaker_names # <<>> /\ si < Len(sentences)
  /\ ~IsBlank(sentence)
  /\ is_episode_start /\ ~narrator_words_complete
  /\ word_count < 4 /\ word_count + words_in_sentence(sentence) > 4

\* words_needed >= words_in_sentence * 0.5
NeedsHalf == 2 * (4 - word_count) >= words_in_sentence(sentence)

\* C23: a sentence whose words cross the 4-word boundary is labelled
\* "Narrator" only when the words still needed to reach four are at least
\* half of its words; otherwise the narrator phase ends before it and the
\* normal cascade labels it
C23_CrossingSentenceByHalf ==
  [][(CrossesBoundary /\ ~NeedsHalf /\ si' = si + 1) =>
       /\ labeled_sentences' = Append(labeled_sentences, <<sentence, CascadeLabel>>)
       /\ labeled_sentences'[Len(labeled_sentences')][2] # "Narrator"]_vars


\* the name whose self-introduction appears in a sentence before the marker,
\* else the first detected name
MainBeforeMarker ==
  LET before == SubSeq(sentences, 1, word_review_marker)
      hits == {j \in 1..Len(before) :
                 \E n \in 1..Len(speaker_names) : SelfIntroOf(before[j], speaker_names[n])}
  IN  IF hits = {} THEN speaker_names[1]
      ELSE speaker_names[SetMin({n \in 1..Len(speaker_names) :
                                   SelfIntroOf(before[SetMin(hits)], speaker_names[n])})]

\* C24: when a word-review marker exists at sentence index m >= 0, every
\* sentence with index <= m that the narrator rule does not take is labelled
\* main_speaker, the name that introduces itself before the marker (else the
\* first detected name)
C24_MainSpeakerUpToMarker ==
  [][(/\ spc = "start" /\ speaker_names # <<>> /\ si < Len(sentences)
      /\ word_review_marker >= 0 /\ si <= word_review_marker
      /\ ~NarratorTakes
      /\ labeled_sentences' # labeled_sentences) =>
       labeled_sentences' = Append(labeled_sentences, <<sentence, MainBeforeMarker>>)]_vars


\* the sentence matches none of the closing, self-introduction, question-by-name
\* and address-by-name patterns of the dialog section
MatchesNoRule ==
  /\ ~IsClosing(sentence)
  /\ intro_name(sentence) = None
  /\ ~\E n \in 1..Len(speaker_names) : Asks(sentence, speaker_names[n])
  /\ addressed_name(sentence) = None

\* guest_speaker after main_speaker and main_speaker otherwise; the only name when there is one
StrictAlternation ==
  IF Len(speaker_names) = 1 THEN speaker_names[1]
  ELSE IF last_speaker = main_speaker THEN guest_speaker ELSE main_speaker

\* C25: a sentence after the word-review marker that the narrator rule does
\* not take and that matches none of the closing, self-introduction or
\* name-address rules is labelled by strict alternation, and the label is a
\* detected name
C25_AlternationGivesName ==
  [][(/\ spc = "start" /\ speaker_names # <<>> /\ si < Len(sentences)
      /\ word_review_marker >= 0 /\ si > word_review_marker
      /\ ~NarratorTakes /\ MatchesNoRule
      /\ labeled_sentences' # labeled_sentences) =>
       /\ labeled_sentences' = Append(labeled_sentences, <<sentence, StrictAlternation>>)
       /\ InNames(StrictAlternation)]_vars


\* the sentence being labelled reaches the alternation of lines 1406-1422
ReachesAlternation ==
  /\ spc = "start" /\ speaker_names # <<>> /\ si < Len(sentences)
  /\ ~IsBlank(sentence)
  /\ ~NarratorTakes
  /\ MarkerTruthy /\ si > word_review_marker
  /\ MatchesNoRule

C27_FusionFallsBackToText ==
  apc = "done" =>
    /\ (\/ Len(audio_speakers) # Len(labeled_sentences)
        \/ Len(speaker_names) # 2
        \/ Cardinality(RawIds) # 2) => combined_speakers = labeled_sentences
    /\ Len(combined_speakers) = Len(labeled_sentences)
    /\ \A n \in 1..Len(labeled_sentences) : combined_speakers[n][1] = labeled_sentences[n][1]

\* three names, three raw identifiers, equal counts and a name in the intro
\* text: the fusion ran and returned the text-only labels
C27_Witness ==
  /\ apc = "done" /\ CountsAgree
  /\ Len(speaker_names) = 3 /\ Cardinality(RawIds) = 3
  /\ main_speaker_name # None
  /\ combined_speakers = labeled_sentences


\* the fusion maps identifiers: equal counts, exactly two detected names, two raw identifiers
FusionMaps == apc = "done" /\ CountsAgree /\ Len(speaker_names) = 2 /\ Cardinality(RawIds) = 2

\* the names that introduce themselves within the first five labelled sentences
SelfIntroducers ==
  {speaker_names[n] : n \in {m \in 1..Len(speaker_names) :
     \E j \in 1..Min(5, Len(labeled_sentences)) :
        SelfIntroOf(labeled_sentences[j][1], speaker_names[m])}}

\* C28: when the fusion maps identifiers, the most frequent raw identifier is
\* mapped to the name that introduces itself within the first five sentences
\* and the other identifier to the other name, so the two identifiers are
\* always mapped to two distinct names
C28_MostFrequentIsSelfIntroducer ==
  FusionMaps =>
    /\ DOMAIN audio_speaker_to_name = RawIds
    /\ audio_speaker_to_name[sorted_audio[1]] # audio_speaker_to_name[sorted_audio[2]]
    /\ \A name \in SelfIntroducers :
         SelfIntroducers = {name} => audio_speaker_to_name[sorted_audio[1]] = name


\* C29: a sentence receives a time range, and hence an audio-derived speaker
\* identifier, only if at least min(3, number of its words) of its words were
\* matched in the stream from the cursor; a sentence with fewer matches gets
\* no identifier, and the cursor never moves backward
C29_RangeNeedsEnoughMatches ==
  [][(alpc = "loop" /\ sentence_speakers' # sentence_speakers /\ align_sentence # <<>>) =>
       /\ (Matched.sentence_start # -1 \/ sentence_speakers'[Len(sentence_speakers')][2] # None)
             => Matched.matched_words >= Min(3, Len(align_sentence))
       /\ word_idx' >= word_idx]_vars


====
